---- MODULE Spec2Model ----
(***************************************************************************)
(* OrChat: the chat session loop (chat.py, chat_with_model), the streaming *)
(* response's outcome as the loop sees it (stream_response) and the        *)
(* context window manager (manage_context_window); then, each under a      *)
(* specification of its own, stream_response on the characters of the      *)
(* stream, the encryption of the API key and the configuration file        *)
(* (config.py), and the filters over the model catalog (api_client.py).    *)
(*                                                                         *)
(* A message is [role, kind, n].  Its text is abstracted by what the code  *)
(* looks at: the role, the kind of text and the text's size in tokens.     *)
(*   kind "instr"       config['system_instructions'], n tokens            *)
(*   kind "instr_think" the same followed by the <thinking> instruction    *)
(*   kind "note"        the trimming notice, n = the count it states       *)
(*   kind "text"        a message the user typed, n tokens                 *)
(*   kind "file"        a text file attachment, n tokens                   *)
(*   kind "reply"       content streamed by the model, n tokens            *)
(*   kind "greeting"    the fixed fallback greeting                        *)
(* Image attachments (list-valued content) are not modelled.               *)
(***************************************************************************)
EXTENDS Integers, Sequences, FiniteSets, TLC

VARIABLES
    history,        \* conversation_history
    pc,             \* position of the loop: "input", "attached", "request", "exited"
    thinking_mode,  \* config['thinking_mode']
    sys_instr,      \* config['system_instructions'], as its size in tokens
    max_tokens,     \* max_tokens of the session
    user_input,     \* the last line read by the loop
    event,          \* the handler that ran last
    sent,           \* the user message of the current turn
    before,         \* conversation_history right before the user message was appended
    t_hist,         \* manage_context_window: argument conversation_history
    t_max,          \* manage_context_window: argument max_tokens
    t_out,          \* manage_context_window: returned pair
    t_done,         \* manage_context_window has been applied
    s_lines,        \* stream_response: the lines response.iter_lines() yields
    s_mode,         \* stream_response: argument thinking_mode
    s_pc,           \* stream_response: "idle", "loop" or "returned"
    s_pos,          \* stream_response: index of the next line
    s_loc,          \* stream_response: full_content, thinking_content, in_thinking,
                    \*                  collected_content
    s_ret,          \* stream_response: the cleaned_content returned
    last_thinking_content,  \* the module-level last_thinking_content
    f_key,          \* encrypt_api_key: argument api_key
    f_master,       \* encrypt_api_key: argument key
    f_token,        \* the bytes encrypt_api_key returned, as decrypt_api_key gets them
    f_damage,       \* what happened to those bytes in between
    f_used,         \* decrypt_api_key: argument key
    f_out,          \* decrypt_api_key: returned value
    f_pc,           \* "idle", "input", "encrypted", "raised" or "decrypted"
    environ,        \* os.environ's OPENROUTER_API_KEY
    key_file,       \* the .key file
    config_file,    \* the config.ini file
    c_op,           \* the operation that ran last
    c_arg,          \* save_config: argument config_data
    c_ret,          \* load_config: returned dictionary
    c_raised,       \* the last operation raised
    c_dec,          \* load_config: its call of decrypt_api_key
    m_catalog,      \* what get_enhanced_models() returns
    m_basic,        \* what get_available_models() returns
    m_filter,       \* the filter: a capability, "group" or "provider"
    m_out,          \* what the filter returned
    m_done,         \* the filter has been applied
    conversation_history,    \* chat_with_model: conversation_history, with its texts
    input_tokens,            \* chat_with_model: input_tokens of the turn
    total_prompt_tokens,     \* chat_with_model: session counter
    total_completion_tokens, \* chat_with_model: session counter
    total_tokens_used,       \* chat_with_model: session counter
    message_count,           \* chat_with_model: session counter
    response_times,          \* chat_with_model: session list
    q_pc,           \* the session: "idle", "input" or "request"
    q_mode,         \* the session: config['thinking_mode']
    q_event,        \* the session: the handler that ran last
    q_turns,        \* the session: messages sent so far
    q_snap,         \* the session counters right before the turn
    q_shown,        \* what /thinking displayed
    q_recent,       \* the thinking content of the most recent assistant response
    self_conversation_history,  \* ChatInterface: self.conversation_history
    messages_sent   \* ChatInterface: self.session_stats['messages_sent']

vars == <<history, pc, thinking_mode, sys_instr, max_tokens, user_input, event,
          sent, before, t_hist, t_max, t_out, t_done,
          s_lines, s_mode, s_pc, s_pos, s_loc, s_ret, last_thinking_content,
          f_key, f_master, f_token, f_damage, f_used, f_out, f_pc,
          environ, key_file, config_file, c_op, c_arg, c_ret, c_raised, c_dec,
          m_catalog, m_basic, m_filter, m_out, m_done,
          conversation_history, input_tokens, total_prompt_tokens,
          total_completion_tokens, total_tokens_used, message_count, response_times,
          q_pc, q_mode, q_event, q_turns, q_snap, q_shown, q_recent,
          self_conversation_history, messages_sent>>

chatVars == <<history, pc, thinking_mode, sys_instr, max_tokens, user_input, event,
              sent, before>>

trimVars == <<t_hist, t_max, t_out, t_done>>

streamVars == <<s_lines, s_mode, s_pc, s_pos, s_loc, s_ret, last_thinking_content>>

cryptoVars == <<f_key, f_master, f_token, f_damage, f_used, f_out, f_pc>>

configVars == <<environ, key_file, config_file, c_op, c_arg, c_ret, c_raised, c_dec>>

\* What the session loop, manage_context_window, stream_response, the
\* encryption functions and the configuration functions each leave alone
filterVars == <<m_catalog, m_basic, m_filter, m_out, m_done>>

sessionVars == <<conversation_history, input_tokens, total_prompt_tokens,
                 total_completion_tokens, total_tokens_used, message_count,
                 response_times, q_pc, q_mode, q_event, q_turns, q_snap, q_shown,
                 q_recent>>

refactorVars == <<self_conversation_history, messages_sent>>

\* The variables of stream_response but the module-level record
streamLocalVars == <<s_lines, s_mode, s_pc, s_pos, s_loc, s_ret>>

nonChatVars == <<trimVars, streamVars, cryptoVars, configVars, filterVars,
                 sessionVars, refactorVars>>

nonTrimVars == <<chatVars, streamVars, cryptoVars, configVars, filterVars,
                 sessionVars, refactorVars>>

nonStreamVars == <<chatVars, trimVars, cryptoVars, configVars, filterVars,
                   sessionVars, refactorVars>>

nonCryptoVars == <<chatVars, trimVars, streamVars, configVars, filterVars,
                   sessionVars, refactorVars>>

nonConfigVars == <<chatVars, trimVars, streamVars, cryptoVars, filterVars,
                   sessionVars, refactorVars>>

nonFilterVars == <<chatVars, trimVars, streamVars, cryptoVars, configVars,
                   sessionVars, refactorVars>>

\* What a session turn leaves alone: it writes last_thinking_content
nonSessionVars == <<chatVars, trimVars, streamLocalVars, cryptoVars, configVars,
                    filterVars>>

----------------------------------------------------------------------------
(* Bounds of the model *)

MaxHist == 4

MaxTrimLen == 4

SysInstrSizes == {200, 1800}

TextSizes == {400, 900}

ReplySizes == {300, 1200}

FileSizes == {600}

Budgets == {800, 2000, 3000}

----------------------------------------------------------------------------
(* Program constants *)

Margin == 1000

ThinkInstrTokens == 100

NoteTokens == 17

GreetingTokens == 8

----------------------------------------------------------------------------
(* Messages and the token counter *)

Msg(role, kind, n) == [role |-> role, kind |-> kind, n |-> n]

SystemMessage(n, thinking) == Msg("system", IF thinking THEN "instr_think" ELSE "instr", n)

PlainSystemMessage(n) == Msg("system", "instr", n)

Note(count) == Msg("system", "note", count)

Greeting == Msg("assistant", "greeting", 0)

\* count_tokens that charges the notice more than the reserve of Margin tokens
count_tokens_HeavyNotice(m) ==
    CASE m.kind = "instr_think" -> m.n + ThinkInstrTokens
      [] m.kind = "note" -> Margin + 150
      [] m.kind = "greeting" -> GreetingTokens
      [] OTHER -> m.n

count_tokens(m) ==
    CASE m.kind = "instr_think" -> m.n + ThinkInstrTokens
      [] m.kind = "note" -> NoteTokens
      [] m.kind = "greeting" -> GreetingTokens
      [] OTHER -> m.n

RECURSIVE SumTokens(_)
SumTokens(H) == IF H = <<>> THEN 0 ELSE count_tokens(Head(H)) + SumTokens(Tail(H))

----------------------------------------------------------------------------
(* manage_context_window *)

\* Walk without the reserve of Margin tokens
RECURSIVE Walk_NoMargin(_, _, _, _, _, _)
Walk_NoMargin(H, i, kept, current_tokens, trimmed_count, max) ==
    IF i < 2 THEN [kept |-> kept, trimmed_count |-> trimmed_count]
    ELSE IF current_tokens + count_tokens(H[i]) < max
         THEN Walk_NoMargin(H, i - 1, <<H[i]>> \o kept,
                            current_tokens + count_tokens(H[i]), trimmed_count, max)
         ELSE Walk_NoMargin(H, i - 1, kept, current_tokens, trimmed_count + 1, max)

\* Walk that ends at the first message that does not fit
RECURSIVE Walk_StopsAtReject(_, _, _, _, _, _)
Walk_StopsAtReject(H, i, kept, current_tokens, trimmed_count, max) ==
    IF i < 2 THEN [kept |-> kept, trimmed_count |-> trimmed_count]
    ELSE IF current_tokens + count_tokens(H[i]) < max - Margin
         THEN Walk_StopsAtReject(H, i - 1, <<H[i]>> \o kept,
                                 current_tokens + count_tokens(H[i]), trimmed_count, max)
         ELSE [kept |-> kept, trimmed_count |-> trimmed_count + (i - 1)]

\* chat.py 173-179: the walk over reversed(conversation_history[1:])
RECURSIVE Walk(_, _, _, _, _, _)
Walk(H, i, kept, current_tokens, trimmed_count, max) ==
    IF i < 2 THEN [kept |-> kept, trimmed_count |-> trimmed_count]
    ELSE IF current_tokens + count_tokens(H[i]) < max - Margin
         THEN Walk(H, i - 1, <<H[i]>> \o kept, current_tokens + count_tokens(H[i]),
                   trimmed_count, max)
         ELSE Walk(H, i - 1, kept, current_tokens, trimmed_count + 1, max)

\* UnderLimit with a strict comparison
UnderLimit_Strict(total_tokens, max) == total_tokens < max

\* chat.py 160
UnderLimit(total_tokens, max) == total_tokens <= max

\* manage_context_window that puts the notice after the kept messages
manage_context_window_NoteLast(H, max) ==
    IF UnderLimit(SumTokens(H), max)
    THEN [hist |-> H, dropped |-> 0]
    ELSE LET w == Walk(H, Len(H), <<>>, count_tokens(H[1]), 0, max)
         IN  [hist |-> <<H[1]>> \o w.kept
                       \o (IF w.trimmed_count > 0 THEN <<Note(w.trimmed_count)>> ELSE <<>>),
              dropped |-> w.trimmed_count]

\* chat.py 151-186
manage_context_window(H, max) ==
    IF UnderLimit(SumTokens(H), max)
    THEN [hist |-> H, dropped |-> 0]
    ELSE LET w == Walk(H, Len(H), <<>>, count_tokens(H[1]), 0, max)
         IN  [hist |-> <<H[1]>>
                       \o (IF w.trimmed_count > 0 THEN <<Note(w.trimmed_count)>> ELSE <<>>)
                       \o w.kept,
              dropped |-> w.trimmed_count]

----------------------------------------------------------------------------
(* stream_response, as chat_with_model sees it.  The stream of a 200       *)
(* response carries content deltas which, once thinking spans are          *)
(* stripped, amount to `deltas` tokens of visible text (0: no content      *)
(* delta, or nothing but blanks); its line iterator may raise after those  *)
(* deltas (`broken`).                                                      *)

Streams == [deltas : {0} \cup ReplySizes, broken : BOOLEAN]

\* chat.py 43-103: an exception of iter_lines is caught and printed, the
\* content accumulated so far is kept; 139-141: blank content is replaced
\* by the greeting; 149: the content is returned.
stream_response(r) == IF r.deltas = 0 THEN Greeting ELSE Msg("assistant", "reply", r.deltas)

\* `if message_content:` (chat.py 973): a Python string is true iff non-empty
Truthy(m) == m.kind = "greeting" \/ m.n > 0

StreamEvent(r) ==
    IF r.broken THEN "stream_broken" ELSE IF r.deltas = 0 THEN "stream_empty" ELSE "reply"

----------------------------------------------------------------------------
(* The session loop of chat_with_model *)

\* PopIfUser without the rollback
PopIfUser_Keep(H) == H

\* chat.py 1073-1074, 1082-1083, 1091-1092, 1028-1029
PopIfUser(H) ==
    IF H # <<>> /\ H[Len(H)].role = "user" THEN SubSeq(H, 1, Len(H) - 1) ELSE H

\* ResetHistory that drops the system message too
ResetHistory_Empty(n) == <<>>

\* chat.py 519, 540
ResetHistory(n) == <<PlainSystemMessage(n)>>

\* Keyword arguments of rich's Console.print; any other keyword is a TypeError
ConsolePrintKeywords ==
    {"sep", "end", "style", "justify", "overflow", "no_wrap", "emoji", "markup",
     "highlight", "width", "height", "crop", "soft_wrap", "new_line_start"}

\* chat.py 507-511: the keywords console.print is called with on /exit
ExitPrintKeywords == {"border_style", "padding"}

ExitPrintRaises == ~(ExitPrintKeywords \subseteq ConsolePrintKeywords)

ExitCommands == {"/exit", "/quit"}

\* Commands that leave conversation_history and the configuration fields of
\* the model alone: /help /save /settings /tokens /speed /model /temperature
\* /theme /about /update /thinking /cls /clear-screen, /system answered "n",
\* and the final else branch (unknown command).
OtherCommands == {"/help", "/unknown"}

\* The positions where the loop reads a line
ReadPos == {"input", "attached", "attached_inline"}

NoMessage == Msg("user", "text", 0)

\* Outside a message turn there is no user message of the turn
NoTurn == sent' = NoMessage /\ before' = history'

\* chat.py 893-966: the user message is appended, the history is trimmed and
\* the request is issued
Send(H, u) ==
    /\ sent' = u
    /\ before' = H
    /\ history' = manage_context_window(Append(H, u), max_tokens).hist
    /\ pc' = "request"
    /\ event' = "sent"

InitChat ==
    /\ thinking_mode \in BOOLEAN
    /\ sys_instr \in SysInstrSizes
    /\ max_tokens \in Budgets
    /\ history = manage_context_window(<<SystemMessage(sys_instr, thinking_mode)>>,
                                       max_tokens).hist
    /\ pc = "input"
    /\ user_input = ""
    /\ event = "start"
    /\ sent = NoMessage
    /\ before = history

InitTrimIdle ==
    /\ t_hist = <<>>
    /\ t_max = 0
    /\ t_out = [hist |-> <<>>, dropped |-> 0]
    /\ t_done = FALSE

\* chat.py 28-38: the locals of stream_response before its loop; `error` is
\* set when the handler at 102-103 has caught an exception
InitLocals ==
    [full_content |-> <<>>, thinking_content |-> <<>>, in_thinking |-> FALSE,
     collected_content |-> <<>>, usage_info |-> "None", error |-> FALSE]

InitStreamIdle ==
    /\ s_lines = <<>>
    /\ s_mode = FALSE
    /\ s_pc = "idle"
    /\ s_pos = 0
    /\ s_loc = InitLocals
    /\ s_ret = <<>>
    /\ last_thinking_content = <<>>

\* Python's None, apart from every string (a string is a sequence of
\* one-character strings)
None == <<"None">>

\* A key as Fernet(key) takes it apart: the signing half and the encryption
\* half of the 32 decoded bytes; `valid` is false for bytes that are not 32
\* url-safe base64-encoded bytes, for which Fernet(key) raises ValueError
BadKey == [valid |-> FALSE, sign |-> 0, enc |-> 0]

NoCiphertext == [ek |-> 0, iv |-> 0, pt |-> <<>>]

NoToken ==
    [version |-> 0, iv |-> 0, ct |-> NoCiphertext,
     hmac |-> [sk |-> 0, version |-> 0, iv |-> 0, ct |-> NoCiphertext]]

NoDecrypt == [reached |-> "none", token |-> NoToken, master |-> BadKey, out |-> None]

NoKeyFile == [exists |-> FALSE, key |-> BadKey]

NoConfigFile ==
    [exists |-> FALSE, api_opt |-> "none",
     api_b64 |-> [valid |-> TRUE, bytes |-> NoToken], api_text |-> <<>>,
     MODEL |-> <<>>, TEMPERATURE |-> <<>>, SYSTEM_INSTRUCTIONS |-> <<>>]

NoConfig == [api_key |-> None, temperature |-> 0, model |-> <<>>,
             system_instructions |-> <<>>]

InitCryptoIdle ==
    /\ f_key = <<>>
    /\ f_master = BadKey
    /\ f_token = NoToken
    /\ f_damage = "none"
    /\ f_used = BadKey
    /\ f_out = None
    /\ f_pc = "idle"

InitConfigIdle ==
    /\ environ = None
    /\ key_file = NoKeyFile
    /\ config_file = NoConfigFile
    /\ c_op = "idle"
    /\ c_arg = NoConfig
    /\ c_ret = NoConfig
    /\ c_raised = FALSE
    /\ c_dec = NoDecrypt

NoResult == [abandoned |-> FALSE, models |-> <<>>, table |-> {}]

InitFilterIdle ==
    /\ m_catalog = <<>>
    /\ m_basic = <<>>
    /\ m_filter = "idle"
    /\ m_out = NoResult
    /\ m_done = FALSE

NoCounters ==
    [total_prompt_tokens |-> 0, total_completion_tokens |-> 0, total_tokens_used |-> 0,
     message_count |-> 0, response_times |-> <<>>]

\* /thinking has not been the last command
NotShown == <<"not shown">>

InitRefactorIdle ==
    /\ self_conversation_history = <<>>
    /\ messages_sent = 0

InitSessionIdle ==
    /\ conversation_history = <<>>
    /\ input_tokens = 0
    /\ total_prompt_tokens = 0
    /\ total_completion_tokens = 0
    /\ total_tokens_used = 0
    /\ message_count = 0
    /\ response_times = <<>>
    /\ q_pc = "idle"
    /\ q_mode = FALSE
    /\ q_event = "start"
    /\ q_turns = 0
    /\ q_snap = NoCounters
    /\ q_shown = NotShown
    /\ q_recent = <<>>
    /\ InitRefactorIdle

\* chat.py 326-327 and 414-417: a blank line
EmptyInput ==
    /\ pc \in {"input", "attached"}
    /\ pc' = "input"
    /\ user_input' = ""
    /\ event' = "empty"
    /\ UNCHANGED <<history, thinking_mode, sys_instr, max_tokens, nonChatVars>>
    /\ NoTurn

\* chat.py 506-512: the print raises, the outer handler (1101-1102) reports
\* it and the loop goes on
CmdExit(c) ==
    /\ pc \in ReadPos
    /\ c \in ExitCommands
    /\ pc' = IF ExitPrintRaises THEN "input" ELSE "exited"
    /\ user_input' = c
    /\ event' = "command"
    /\ UNCHANGED <<history, thinking_mode, sys_instr, max_tokens, nonChatVars>>
    /\ NoTurn

\* chat.py 518-521 (/clear) and 523-559 (/new)
CmdClear(c) ==
    /\ pc \in ReadPos
    /\ c \in {"/clear", "/new"}
    /\ history' = ResetHistory(sys_instr)
    /\ pc' = "input"
    /\ user_input' = c
    /\ event' = "command"
    /\ UNCHANGED <<thinking_mode, sys_instr, max_tokens, nonChatVars>>
    /\ NoTurn

\* chat.py 732-766: /system with new instructions
CmdSystem(n) ==
    /\ pc \in ReadPos
    /\ sys_instr' = n
    /\ history' = [history EXCEPT ![1] = PlainSystemMessage(n)]
    /\ pc' = "input"
    /\ user_input' = "/system"
    /\ event' = "command"
    /\ UNCHANGED <<thinking_mode, max_tokens, nonChatVars>>
    /\ NoTurn

\* chat.py 821-849
CmdThinkingMode ==
    /\ pc \in ReadPos
    /\ thinking_mode' = ~thinking_mode
    /\ history' = IF Len(history) > 0 /\ history[1].role = "system"
                  THEN [history EXCEPT ![1] = SystemMessage(sys_instr, thinking_mode')]
                  ELSE history
    /\ pc' = "input"
    /\ user_input' = "/thinking-mode"
    /\ event' = "command"
    /\ UNCHANGED <<sys_instr, max_tokens, nonChatVars>>
    /\ NoTurn

\* chat.py 659-671 (/model): select_model runs auto_detect_thinking_mode
\* (model_selection.py 480-522) on the chosen model, which sets
\* config['thinking_mode'] to whether the catalog says the model reasons;
\* a cancelled selection changes nothing
CmdModel(selected, supports_reasoning) ==
    /\ pc \in ReadPos
    /\ thinking_mode' = IF selected THEN supports_reasoning ELSE thinking_mode
    /\ pc' = "input"
    /\ user_input' = "/model"
    /\ event' = "command"
    /\ UNCHANGED <<history, sys_instr, max_tokens, nonChatVars>>
    /\ NoTurn

\* CmdOther whose final else branch falls through to the message path
CmdOther_FallsThrough(c) ==
    /\ pc \in ReadPos
    /\ c \in OtherCommands
    /\ user_input' = c
    /\ IF c = "/unknown" /\ Len(history) < MaxHist
       THEN /\ sent' = Msg("user", "text", 400)
            /\ before' = history
            /\ history' = manage_context_window(Append(history, sent'), max_tokens).hist
            /\ pc' = "request"
            /\ event' = "command"
       ELSE /\ pc' = "input"
            /\ event' = "command"
            /\ history' = history
            /\ NoTurn
    /\ UNCHANGED <<thinking_mode, sys_instr, max_tokens, nonChatVars>>

\* chat.py 514-516, 561-731, 768-819, 851-891
CmdOther(c) ==
    /\ pc \in ReadPos
    /\ c \in OtherCommands
    /\ pc' = "input"
    /\ user_input' = c
    /\ event' = "command"
    /\ UNCHANGED <<history, thinking_mode, sys_instr, max_tokens, nonChatVars>>
    /\ NoTurn

\* chat.py 334-417: a line "#path".  handle_attachment appends the file as
\* a user message (file_handler.py 314-317) or fails (no path, no such file,
\* validation or read error) and the loop reads the next line.
AttachFile(ok, n) ==
    /\ pc = "input"
    /\ Len(history) < MaxHist
    /\ history' = IF ok THEN Append(history, Msg("user", "file", n)) ELSE history
    /\ pc' = IF ok THEN "attached" ELSE "input"
    /\ user_input' = "#file"
    /\ event' = IF ok THEN "attached" ELSE "attach_failed"
    /\ UNCHANGED <<thinking_mode, sys_instr, max_tokens, nonChatVars>>
    /\ NoTurn

\* A plain message; after "text #path" with no text (chat.py 484-493) the
\* line read is sent whatever it is, blank included
SendMessage(n) ==
    /\ pc \in ReadPos
    /\ n \in TextSizes \cup (IF pc = "attached_inline" THEN {0} ELSE {})
    /\ Len(history) < MaxHist
    /\ Send(history, Msg("user", "text", n))
    /\ user_input' = "text"
    /\ UNCHANGED <<thinking_mode, sys_instr, max_tokens, nonChatVars>>

\* chat.py 419-500: a line "text #path more text"; when the file is attached
\* the text around the path is the message, and when there is none the loop
\* reads one more line
AttachInline(ok, n, withText, m) ==
    /\ pc = "input"
    /\ Len(history) + 1 < MaxHist
    /\ user_input' = "text#file"
    /\ IF ~ok
       THEN /\ pc' = "input"
            /\ event' = "attach_failed"
            /\ history' = history
            /\ NoTurn
       ELSE IF withText
            THEN Send(Append(history, Msg("user", "file", n)), Msg("user", "text", m))
            ELSE /\ history' = Append(history, Msg("user", "file", n))
                 /\ pc' = "attached_inline"
                 /\ event' = "attached"
                 /\ NoTurn
    /\ UNCHANGED <<thinking_mode, sys_instr, max_tokens, nonChatVars>>

\* chat.py 968-1029 and 1072-1074: status 200
Status200(r) ==
    /\ pc = "request"
    /\ r \in Streams
    /\ LET message_content == stream_response(r)
           h == IF Truthy(message_content)
                THEN Append(history, message_content)
                ELSE PopIfUser(history)
       IN  history' = PopIfUser(h)
    /\ pc' = "input"
    /\ event' = StreamEvent(r)
    /\ UNCHANGED <<thinking_mode, sys_instr, max_tokens, user_input, sent, before,
                   nonChatVars>>

\* chat.py 1030-1074: any other status
StatusError ==
    /\ pc = "request"
    /\ history' = PopIfUser(history)
    /\ pc' = "input"
    /\ event' = "status_error"
    /\ UNCHANGED <<thinking_mode, sys_instr, max_tokens, user_input, sent, before,
                   nonChatVars>>

\* chat.py 1075-1083: requests.post raises a RequestException
NetworkError ==
    /\ pc = "request"
    /\ history' = PopIfUser(history)
    /\ pc' = "input"
    /\ event' = "network_error"
    /\ UNCHANGED <<thinking_mode, sys_instr, max_tokens, user_input, sent, before,
                   nonChatVars>>

\* chat.py 1084-1092: requests.post raises any other Exception
OtherError ==
    /\ pc = "request"
    /\ history' = PopIfUser(history)
    /\ pc' = "input"
    /\ event' = "other_error"
    /\ UNCHANGED <<thinking_mode, sys_instr, max_tokens, user_input, sent, before,
                   nonChatVars>>

\* chat.py 1096-1100: KeyboardInterrupt, while a line is read or while the
\* request or the stream is pending (it is no Exception: neither the handlers
\* at 1075-1092 nor the one of stream_response at 102 catch it)
KeyboardInterrupt ==
    /\ pc \in ReadPos \cup {"request"}
    /\ pc' = "exited"
    /\ event' = "interrupt"
    /\ UNCHANGED <<history, thinking_mode, sys_instr, max_tokens, user_input, sent,
                   before, nonChatVars>>

NextChat ==
    \/ EmptyInput
    \/ \E c \in ExitCommands : CmdExit(c)
    \/ \E c \in {"/clear", "/new"} : CmdClear(c)
    \/ \E n \in SysInstrSizes : CmdSystem(n)
    \/ CmdThinkingMode
    \/ \E selected \in BOOLEAN, supports_reasoning \in BOOLEAN :
          CmdModel(selected, supports_reasoning)
    \/ \E c \in OtherCommands : CmdOther(c)
    \/ \E ok \in BOOLEAN, n \in FileSizes : AttachFile(ok, n)
    \/ \E n \in TextSizes \cup {0} : SendMessage(n)
    \/ \E ok \in BOOLEAN, n \in FileSizes, withText \in BOOLEAN, m \in TextSizes :
          AttachInline(ok, n, withText, m)
    \/ \E r \in Streams : Status200(r)
    \/ StatusError
    \/ NetworkError
    \/ OtherError
    \/ KeyboardInterrupt

Init ==
    InitChat /\ InitTrimIdle /\ InitStreamIdle /\ InitCryptoIdle /\ InitConfigIdle
    /\ InitFilterIdle /\ InitSessionIdle

Next == NextChat

Spec == Init /\ [][Next]_vars

----------------------------------------------------------------------------
(* manage_context_window as a function: every history of at most           *)
(* MaxTrimLen messages that starts with a system message, every budget      *)

TrimBody ==
    {Msg("user", "text", n) : n \in TextSizes}
    \cup {Msg("assistant", "reply", n) : n \in ReplySizes}
    \cup {Msg("user", "file", n) : n \in FileSizes}
    \cup {Note(1)}

TrimInputs ==
    {<<SystemMessage(n, th)>> \o b :
        n \in SysInstrSizes, th \in BOOLEAN,
        b \in UNION {[1..k -> TrimBody] : k \in 0..(MaxTrimLen - 1)}}

InitChatIdle ==
    /\ history = <<>>
    /\ pc = "idle"
    /\ thinking_mode = FALSE
    /\ sys_instr = 0
    /\ max_tokens = 0
    /\ user_input = ""
    /\ event = "start"
    /\ sent = NoMessage
    /\ before = <<>>

InitTrim ==
    /\ InitChatIdle
    /\ InitSessionIdle
    /\ InitStreamIdle
    /\ InitCryptoIdle
    /\ InitConfigIdle
    /\ InitFilterIdle
    /\ t_hist \in TrimInputs
    /\ t_max \in Budgets
    /\ t_out = [hist |-> <<>>, dropped |-> 0]
    /\ t_done = FALSE

ApplyTrim ==
    /\ ~t_done
    /\ t_out' = manage_context_window(t_hist, t_max)
    /\ t_done' = TRUE
    /\ UNCHANGED <<t_hist, t_max, nonTrimVars>>

NextTrim == ApplyTrim

SpecTrim == InitTrim /\ [][NextTrim]_vars

----------------------------------------------------------------------------
(* stream_response on the characters of the stream.  A text is a sequence   *)
(* of characters; a line of the stream is [kind, content]: a "delta" line   *)
(* is a data line whose JSON carries choices[0].delta.content = content,    *)
(* a "done" line is "data: [DONE]".                                         *)

MaxChunks == 3

OpenTag == <<"<", "t", "h", "i", "n", "k", "i", "n", "g", ">">>

CloseTag == <<"<", "/", "t", "h", "i", "n", "k", "i", "n", "g", ">">>

\* chat.py 141: the fallback greeting, kept as one symbol
FallbackGreeting == <<"Hello! I'm here to help you.">>

Whitespace == {" ", "\n", "\t"}

MatchesAt(s, t, i) == i + Len(t) - 1 <= Len(s) /\ SubSeq(s, i, i + Len(t) - 1) = t

\* str.find from a position: the first index where t occurs in s, 0 if none
Find(s, t, from) ==
    LET c == {i \in from..(Len(s) - Len(t) + 1) : MatchesAt(s, t, i)}
    IN  IF c = {} THEN 0 ELSE CHOOSE i \in c : \A j \in c : i <= j

\* `t in s`
Contains(s, t) == Find(s, t, 1) # 0

\* s.split(t, 1)[0] and s.split(t, 1)[1], for s that contains t
SplitBefore(s, t) == SubSeq(s, 1, Find(s, t, 1) - 1)

SplitAfter(s, t) == SubSeq(s, Find(s, t, 1) + Len(t), Len(s))

\* re.compile(r'<thinking>(.*?)</thinking>', re.DOTALL).findall(s), from a position
RECURSIVE FindAll(_, _)
FindAll(s, from) ==
    LET o == Find(s, OpenTag, from)
        c == IF o = 0 THEN 0 ELSE Find(s, CloseTag, o + Len(OpenTag))
    IN  IF c = 0 THEN <<>>
        ELSE <<SubSeq(s, o + Len(OpenTag), c - 1)>> \o FindAll(s, c + Len(CloseTag))

\* re.sub(r'<thinking>.*?</thinking>', '', s, flags=re.DOTALL), from a position
RECURSIVE RemoveSpans(_, _)
RemoveSpans(s, from) ==
    LET o == Find(s, OpenTag, from)
        c == IF o = 0 THEN 0 ELSE Find(s, CloseTag, o + Len(OpenTag))
    IN  IF c = 0 THEN SubSeq(s, from, Len(s))
        ELSE SubSeq(s, from, o - 1) \o RemoveSpans(s, c + Len(CloseTag))

\* "\n".join(parts)
RECURSIVE JoinLines(_)
JoinLines(parts) ==
    IF parts = <<>> THEN <<>>
    ELSE IF Len(parts) = 1 THEN parts[1]
    ELSE parts[1] \o <<"\n">> \o JoinLines(Tail(parts))

\* str.strip()
RECURSIVE LStrip(_)
LStrip(s) == IF s # <<>> /\ Head(s) \in Whitespace THEN LStrip(Tail(s)) ELSE s

RECURSIVE RStrip(_)
RStrip(s) ==
    IF s # <<>> /\ s[Len(s)] \in Whitespace THEN RStrip(SubSeq(s, 1, Len(s) - 1)) ELSE s

Strip(s) == LStrip(RStrip(s))

\* chat.py 66-98: one content delta, on the locals of stream_response
OnDelta(loc, content, mode) ==
    IF content = <<>> THEN loc
    ELSE LET l1 == [loc EXCEPT !.full_content = @ \o content]
         IN  IF mode /\ Contains(content, OpenTag)
             THEN [l1 EXCEPT !.in_thinking = TRUE,
                             !.thinking_content = @ \o SplitAfter(content, OpenTag)]
             ELSE IF mode /\ Contains(content, CloseTag)
             THEN [l1 EXCEPT !.in_thinking = FALSE,
                             !.thinking_content = @ \o SplitBefore(content, CloseTag)]
             ELSE IF mode /\ l1.in_thinking
             THEN [l1 EXCEPT !.thinking_content = @ \o content]
             ELSE [l1 EXCEPT !.collected_content = @ \o content]

\* OnLine that goes on to the next line at [DONE] and at a JSON scalar alike
OnLine_SkipsScalar(loc, line, mode) ==
    IF line.kind = "delta"
    THEN OnDelta([loc EXCEPT !.usage_info = IF line.usage # "None" THEN line.usage ELSE @],
                 line.content, mode)
    ELSE loc

\* chat.py 44-103: one line of the stream, on the locals of stream_response.
\* [DONE] and a line that is not JSON leave them alone and the loop goes on;
\* a JSON scalar raises out of the loop
OnLine(loc, line, mode) ==
    IF line.kind = "delta"
    THEN OnDelta([loc EXCEPT !.usage_info = IF line.usage # "None" THEN line.usage ELSE @],
                 line.content, mode)
    ELSE IF line.kind = "scalar" THEN [loc EXCEPT !.error = TRUE]
    ELSE loc

\* ThinkingRecord without the pass over full_content
ThinkingRecord_IncrementalOnly(loc, mode, last) ==
    IF Strip(loc.thinking_content) # <<>> THEN loc.thinking_content ELSE last

\* ThinkingRecord that takes the first span only
ThinkingRecord_FirstSpan(loc, mode, last) ==
    LET thinking_matches == FindAll(loc.full_content, 1)
    IN  IF mode /\ thinking_matches # <<>> THEN Head(thinking_matches)
        ELSE IF Strip(loc.thinking_content) # <<>> THEN loc.thinking_content
        ELSE last

\* chat.py 105-123: the value of last_thinking_content after the stream
ThinkingRecord(loc, mode, last) ==
    LET thinking_matches == FindAll(loc.full_content, 1)
    IN  IF mode /\ thinking_matches # <<>> THEN JoinLines(thinking_matches)
        ELSE IF Strip(loc.thinking_content) # <<>> THEN loc.thinking_content
        ELSE last

\* chat.py 125-132: the thinking spans are removed and the rest is stripped
Cleaned(full_content, mode) ==
    IF mode /\ Contains(full_content, OpenTag)
    THEN Strip(RemoveSpans(full_content, 1))
    ELSE full_content

\* OrGreeting without the substitution
OrGreeting_None(cleaned_content) == cleaned_content

\* chat.py 139-141
OrGreeting(cleaned_content) ==
    IF Strip(cleaned_content) = <<>> THEN FallbackGreeting ELSE cleaned_content

\* The texts whose chunkings are streamed
StreamTexts ==
    { OpenTag \o <<"h", "e", "l", "l", "o">> \o CloseTag \o <<" ", "w", "o", "r", "l", "d">>,
      <<"h", "i">>,
      OpenTag \o <<"h", "m">>,
      OpenTag \o <<"a">> \o CloseTag,
      OpenTag \o <<"a">> \o CloseTag \o OpenTag \o <<"b">> \o CloseTag,
      <<" ", "o", "k", " ">> }

\* a data line whose JSON is an object of the expected shape: content is
\* choices[0].delta.content, usage the value of its 'usage' key ("None" when
\* the object has no such key)
Event(content, usage) == [kind |-> "delta", content |-> content, usage |-> usage]

Delta(content) == Event(content, "None")

\* the final event of a stream: no content, the usage summary
UsageLine(usage) == Event(<<>>, usage)

DoneLine == [kind |-> "done", content |-> <<>>, usage |-> "None"]

\* a data line that is not JSON: json.loads raises JSONDecodeError
NotJsonLine == [kind |-> "notjson", content |-> <<>>, usage |-> "None"]

\* a data line whose JSON is a number or null: json.loads returns it and
\* `'usage' in chunk_data` raises TypeError
ScalarLine == [kind |-> "scalar", content |-> <<>>, usage |-> "None"]

\* The ways to cut a text into k non-empty chunks
RECURSIVE Chunkings(_, _)
Chunkings(t, k) ==
    IF k = 1 THEN (IF t = <<>> THEN {} ELSE {<<Delta(t)>>})
    ELSE UNION {{<<Delta(SubSeq(t, 1, i))>> \o rest :
                    rest \in Chunkings(SubSeq(t, i + 1, Len(t)), k - 1)} :
                i \in 1..(Len(t) - 1)}

\* The texts streamed with another line among their deltas
ShortTexts == {<<"h", "i">>, OpenTag \o <<"a">> \o CloseTag}

InsertAt(lines, p, line) == SubSeq(lines, 1, p) \o <<line>> \o SubSeq(lines, p + 1, Len(lines))

\* Every text cut into at most MaxChunks deltas, with and without a final
\* [DONE], the stream that holds [DONE] only, and every short text cut into
\* at most two deltas with a usage summary at its end and one more line (not
\* JSON, a JSON scalar, [DONE] or another usage summary) anywhere before it
StreamInputs ==
    LET cuts == UNION {Chunkings(t, k) : t \in StreamTexts, k \in 1..MaxChunks}
        short == UNION {Chunkings(t, k) : t \in ShortTexts, k \in 1..2}
    IN  {<<DoneLine>>} \cup cuts \cup {c \o <<DoneLine>> : c \in cuts}
        \cup UNION {{InsertAt(c, p, x) \o <<UsageLine("u2")>> :
                        p \in 0..Len(c), x \in {NotJsonLine, ScalarLine, DoneLine,
                                                UsageLine("u1")}} : c \in short}

InitStream ==
    /\ InitChatIdle
    /\ InitSessionIdle
    /\ InitTrimIdle
    /\ InitCryptoIdle
    /\ InitConfigIdle
    /\ InitFilterIdle
    /\ s_lines \in StreamInputs
    /\ s_mode \in BOOLEAN
    /\ s_pc = "loop"
    /\ s_pos = 1
    /\ s_loc = InitLocals
    /\ s_ret = <<>>
    /\ last_thinking_content = <<>>

\* chat.py 44-103: one iteration of the loop over response.iter_lines()
StreamLine ==
    /\ s_pc = "loop"
    /\ s_pos <= Len(s_lines)
    /\ s_loc' = OnLine(s_loc, s_lines[s_pos], s_mode)
    /\ s_pos' = IF s_loc'.error THEN Len(s_lines) + 1 ELSE s_pos + 1
    /\ UNCHANGED <<s_lines, s_mode, s_pc, s_ret, last_thinking_content, nonStreamVars>>

\* chat.py 105-149: after the loop
StreamReturn ==
    /\ s_pc = "loop"
    /\ s_pos > Len(s_lines)
    /\ last_thinking_content' = ThinkingRecord(s_loc, s_mode, last_thinking_content)
    /\ s_ret' = OrGreeting(Cleaned(s_loc.full_content, s_mode))
    /\ s_pc' = "returned"
    /\ UNCHANGED <<s_lines, s_mode, s_pos, s_loc, nonStreamVars>>

NextStream == StreamLine \/ StreamReturn

\* chat.py 44-103: the loop from line pos on, as a function of the lines
RECURSIVE RunFrom(_, _, _, _)
RunFrom(lines, pos, loc, mode) ==
    IF pos > Len(lines) \/ loc.error THEN loc
    ELSE RunFrom(lines, pos + 1, OnLine(loc, lines[pos], mode), mode)

\* chat.py 24-149: what stream_response returns and records for a stream,
\* called with an empty last_thinking_content
Outputs(lines, mode) ==
    LET loc == RunFrom(lines, 1, InitLocals, mode)
    IN  [text |-> OrGreeting(Cleaned(loc.full_content, mode)),
         thinking |-> ThinkingRecord(loc, mode, <<>>),
         usage |-> loc.usage_info]

\* chat.py 149 and 114, 120: what the stream of the state returned and recorded
Returned == [text |-> s_ret, thinking |-> last_thinking_content, usage |-> s_loc.usage_info]

SpecStream == InitStream /\ [][NextStream]_vars

----------------------------------------------------------------------------
(* encrypt_api_key and decrypt_api_key.  A string is a sequence of           *)
(* characters, bytes are a sequence of bytes written as two hex digits.      *)
(* Fernet is modelled by its construction: a token is version, IV, the AES   *)
(* ciphertext of the data under the key's encryption half, and the HMAC of   *)
(* those three under the key's signing half.  The cipher and the MAC are     *)
(* ideal: a ciphertext opens under its own key only, an HMAC is equal to     *)
(* the HMAC of the same bytes under the same key only.                       *)

MaxKeyLen == 2

KeyChars == {"s", "k", "é"}

\* the API keys: the non-empty strings of at most MaxKeyLen characters
ApiKeys == UNION {[1..n -> KeyChars] : n \in 1..MaxKeyLen}

FernetKeys ==
    {[valid |-> TRUE, sign |-> 1, enc |-> 1],
     [valid |-> TRUE, sign |-> 2, enc |-> 2],
     [valid |-> TRUE, sign |-> 1, enc |-> 2]}

MasterKeys == FernetKeys \cup {BadKey}

\* os.urandom(16) of Fernet.encrypt
IVs == {1, 2}

\* str.encode(): UTF-8
Utf8(c) == IF c = "é" THEN <<"c3", "a9">> ELSE IF c = "s" THEN <<"73">> ELSE <<"6b">>

RECURSIVE Encode(_)
Encode(str) == IF str = <<>> THEN <<>> ELSE Utf8(Head(str)) \o Encode(Tail(str))

\* Decode that takes every byte for a character
RECURSIVE Decode_Latin1(_)
Decode_Latin1(b) ==
    IF b = <<>> THEN [ok |-> TRUE, str |-> <<>>]
    ELSE LET c == IF Head(b) = "73" THEN "s"
                  ELSE IF Head(b) = "6b" THEN "k"
                  ELSE IF Head(b) = "c3" THEN "Ã" ELSE "©"
         IN  [ok |-> TRUE, str |-> <<c>> \o Decode_Latin1(Tail(b)).str]

\* bytes.decode(): UTF-8; ok is false where it raises UnicodeDecodeError
RECURSIVE Decode(_)
Decode(b) ==
    IF b = <<>> THEN [ok |-> TRUE, str |-> <<>>]
    ELSE IF Head(b) \in {"73", "6b"}
         THEN LET r == Decode(Tail(b))
              IN  [ok |-> r.ok, str |-> <<IF Head(b) = "73" THEN "s" ELSE "k">> \o r.str]
         ELSE IF Len(b) >= 2 /\ b[1] = "c3" /\ b[2] = "a9"
              THEN LET r == Decode(SubSeq(b, 3, Len(b)))
                   IN  [ok |-> r.ok, str |-> <<"é">> \o r.str]
              ELSE [ok |-> FALSE, str |-> <<>>]

AES_encrypt(ek, iv, data) == [ek |-> ek, iv |-> iv, pt |-> data]

HMAC(sk, version, iv, ct) == [sk |-> sk, version |-> version, iv |-> iv, ct |-> ct]

\* Fernet(key).encrypt(data), key valid
Fernet_encrypt(key, data, iv) ==
    LET ct == AES_encrypt(key.enc, iv, data)
    IN  [version |-> 128, iv |-> iv, ct |-> ct, hmac |-> HMAC(key.sign, 128, iv, ct)]

\* Fernet_decrypt without the verification of the HMAC
Fernet_decrypt_Unverified(key, token) ==
    IF token.version # 128 THEN [raised |-> TRUE, data |-> <<>>]
    ELSE [raised |-> FALSE, data |-> token.ct.pt]

\* Fernet(key).decrypt(token), key valid; raised: InvalidToken
Fernet_decrypt(key, token) ==
    IF token.version # 128 THEN [raised |-> TRUE, data |-> <<>>]
    ELSE IF token.hmac # HMAC(key.sign, token.version, token.iv, token.ct)
         THEN [raised |-> TRUE, data |-> <<>>]
         ELSE IF token.ct.ek # key.enc \/ token.ct.iv # token.iv
              THEN [raised |-> TRUE, data |-> <<>>]      \* the padding check fails
              ELSE [raised |-> FALSE, data |-> token.ct.pt]

\* config.py 15-17
encrypt_api_key(api_key, key, iv) ==
    IF ~key.valid THEN [raised |-> TRUE, token |-> NoToken]
    ELSE [raised |-> FALSE, token |-> Fernet_encrypt(key, Encode(api_key), iv)]

\* config.py 19-24
decrypt_api_key(encrypted_key, key) ==
    IF ~key.valid THEN None
    ELSE LET r == Fernet_decrypt(key, encrypted_key)
         IN  IF r.raised THEN None
             ELSE LET d == Decode(r.data)
                  IN  IF d.ok THEN d.str ELSE None

\* What can happen to a stored token: a byte of the version, of the
\* ciphertext or of the HMAC is changed
Damages == {"version", "ciphertext", "hmac"}

Damage(token, d) ==
    IF d = "version" THEN [token EXCEPT !.version = 0]
    ELSE IF d = "ciphertext" THEN [token EXCEPT !.ct.pt = <<"6b">> \o Tail(@)]
    ELSE [token EXCEPT !.hmac.sk = 0]

InitCrypto ==
    /\ InitChatIdle
    /\ InitSessionIdle
    /\ InitTrimIdle
    /\ InitStreamIdle
    /\ InitConfigIdle
    /\ InitFilterIdle
    /\ f_key \in ApiKeys
    /\ f_master \in MasterKeys
    /\ f_token = NoToken
    /\ f_damage = "none"
    /\ f_used = BadKey
    /\ f_out = None
    /\ f_pc = "input"

Encrypt(iv) ==
    /\ f_pc = "input"
    /\ LET r == encrypt_api_key(f_key, f_master, iv)
       IN  /\ f_token' = r.token
           /\ f_pc' = IF r.raised THEN "raised" ELSE "encrypted"
    /\ UNCHANGED <<f_key, f_master, f_damage, f_used, f_out, nonCryptoVars>>

DamageToken(d) ==
    /\ f_pc = "encrypted"
    /\ f_damage = "none"
    /\ Damage(f_token, d) # f_token
    /\ f_token' = Damage(f_token, d)
    /\ f_damage' = d
    /\ UNCHANGED <<f_key, f_master, f_used, f_out, f_pc, nonCryptoVars>>

Decrypt(key) ==
    /\ f_pc = "encrypted"
    /\ f_used' = key
    /\ f_out' = decrypt_api_key(f_token, key)
    /\ f_pc' = "decrypted"
    /\ UNCHANGED <<f_key, f_master, f_token, f_damage, nonCryptoVars>>

NextCrypto ==
    \/ \E iv \in IVs : Encrypt(iv)
    \/ \E d \in Damages : DamageToken(d)
    \/ \E key \in MasterKeys : Decrypt(key)

SpecCrypto == InitCrypto /\ [][NextCrypto]_vars

----------------------------------------------------------------------------
(* load_config and save_config.  config.ini is the options configparser     *)
(* holds: the option of section API (none, the encrypted key as base64      *)
(* text, or the plaintext key) and MODEL, TEMPERATURE, SYSTEM_INSTRUCTIONS  *)
(* of section SETTINGS.  A temperature is a number of tenths.               *)

SessionKeys == {<<"s">>, <<"k", "é">>}

Temperatures == {7, 15}

Models == {<<>>, <<"m", "/", "1">>}

\* The config dictionaries save_config is given: every key, temperature and
\* model with the plain instructions, and one with a % in its instructions
Configs ==
    {[api_key |-> k, temperature |-> t, model |-> m,
      system_instructions |-> <<"b", "e", " ", "k", "i", "n", "d">>] :
        k \in SessionKeys, t \in Temperatures, m \in Models}
    \cup {[api_key |-> <<"s">>, temperature |-> 15, model |-> <<"m", "/", "1">>,
            system_instructions |-> <<"9", "9", "%">>]}

\* os.urandom(16) as save_config draws it
SaveIVs == {1}

\* DEFAULT_TEMPERATURE
DefaultTemperature == 7

Digits == <<"0", "1", "2", "3", "4", "5", "6", "7", "8", "9">>

\* str(float)
FormatFloat(t) == <<Digits[(t \div 10) + 1], ".", Digits[(t % 10) + 1]>>

DigitValue(c) == CHOOSE d \in 0..9 : Digits[d + 1] = c

IsDigit(c) == \E d \in 0..9 : Digits[d + 1] = c

\* float(str), for the texts str(float) writes; ok is false where it raises
ParseFloat(str) ==
    IF Len(str) = 3 /\ IsDigit(str[1]) /\ str[2] = "." /\ IsDigit(str[3])
    THEN [ok |-> TRUE, value |-> 10 * DigitValue(str[1]) + DigitValue(str[3])]
    ELSE [ok |-> FALSE, value |-> 0]

\* base64.b64encode(bytes).decode('utf-8')
b64encode(bytes) == [valid |-> TRUE, bytes |-> bytes]

\* base64.b64decode(text); raised: binascii.Error
b64decode(text) == [raised |-> ~text.valid, bytes |-> text.bytes]

\* configparser: value.replace('%%', '')
RECURSIVE RemoveEscapedPercent(_)
RemoveEscapedPercent(v) ==
    IF Len(v) < 2 THEN v
    ELSE IF v[1] = "%" /\ v[2] = "%" THEN RemoveEscapedPercent(SubSeq(v, 3, Len(v)))
         ELSE <<v[1]>> \o RemoveEscapedPercent(Tail(v))

\* configparser, BasicInterpolation.before_set: setting an option to a text
\* with a lone % raises ValueError
SetRaises(v) == Contains(RemoveEscapedPercent(v), <<"%">>)

\* configparser, BasicInterpolation.before_get: %% reads as %
RECURSIVE Interpolate(_)
Interpolate(v) ==
    IF Len(v) < 2 THEN v
    ELSE IF v[1] = "%" /\ v[2] = "%" THEN <<"%">> \o Interpolate(SubSeq(v, 3, Len(v)))
         ELSE <<v[1]>> \o Interpolate(Tail(v))

\* an option's value as configparser gives it back from the file it wrote
ReadValue(v) == Interpolate(Strip(v))

\* Python truth of a string or None
TruthyStr(v) == v # None /\ v # <<>>

\* config.py 26-43; fresh is what generate_key() returns
get_or_create_master_key(kf, fresh) ==
    IF kf.exists THEN [key |-> kf.key, file |-> kf]
    ELSE [key |-> fresh, file |-> [exists |-> TRUE, key |-> fresh]]

\* config.py 94-109
LoadApiKey(env, kf, cf, fresh) ==
    IF cf.api_opt = "OPENROUTER_API_KEY_ENCRYPTED"
    THEN LET encrypted_key == b64decode(cf.api_b64)
         IN  IF encrypted_key.raised
             THEN [api_key |-> env, file |-> kf,
                   dec |-> [NoDecrypt EXCEPT !.reached = "b64decode"]]
             ELSE LET m == get_or_create_master_key(kf, fresh)
                      decrypted_key == decrypt_api_key(encrypted_key.bytes, m.key)
                  IN  [api_key |-> IF TruthyStr(decrypted_key) THEN decrypted_key ELSE env,
                       file |-> m.file,
                       dec |-> [reached |-> "decrypt", token |-> encrypted_key.bytes,
                                master |-> m.key, out |-> decrypted_key]]
    ELSE IF cf.api_opt = "OPENROUTER_API_KEY" /\ ReadValue(cf.api_text) # <<>>
         THEN [api_key |-> ReadValue(cf.api_text), file |-> kf, dec |-> NoDecrypt]
         ELSE [api_key |-> env, file |-> kf, dec |-> NoDecrypt]

\* config.py 67-125
load_config(env, kf, cf, fresh) ==
    IF ~cf.exists
    THEN [raised |-> FALSE, file |-> kf, dec |-> NoDecrypt,
          ret |-> [api_key |-> env, temperature |-> DefaultTemperature, model |-> <<>>,
                   system_instructions |-> <<>>]]
    ELSE LET api == LoadApiKey(env, kf, cf, fresh)
             temperature == ParseFloat(ReadValue(cf.TEMPERATURE))
         IN  [raised |-> ~temperature.ok, file |-> api.file, dec |-> api.dec,
              ret |-> [api_key |-> api.api_key, temperature |-> temperature.value,
                       model |-> ReadValue(cf.MODEL),
                       system_instructions |-> ReadValue(cf.SYSTEM_INSTRUCTIONS)]]

\* config.py 127-171: the key file and the config file after save_config
save_config(env, kf, cf, config_data, iv, fresh) ==
    LET encrypting == env = None /\ TruthyStr(config_data.api_key)
        m == get_or_create_master_key(kf, fresh)
        encrypted_key == encrypt_api_key(config_data.api_key, m.key, iv)
        api == IF encrypting
               THEN IF encrypted_key.raised
                    THEN [raised |-> SetRaises(config_data.api_key),
                          opt |-> "OPENROUTER_API_KEY",
                          b64 |-> NoConfigFile.api_b64, text |-> config_data.api_key]
                    ELSE [raised |-> FALSE, opt |-> "OPENROUTER_API_KEY_ENCRYPTED",
                          b64 |-> b64encode(encrypted_key.token), text |-> <<>>]
               ELSE IF env = None
                    THEN [raised |-> config_data.api_key = None,
                          opt |-> "OPENROUTER_API_KEY",
                          b64 |-> NoConfigFile.api_b64, text |-> <<>>]
                    ELSE [raised |-> FALSE, opt |-> "none",
                          b64 |-> NoConfigFile.api_b64, text |-> <<>>]
        raised == \/ api.raised
                  \/ SetRaises(config_data.model)
                  \/ SetRaises(config_data.system_instructions)
    IN  [raised |-> raised,
         key_file |-> IF encrypting THEN m.file ELSE kf,
         config_file |->
            IF raised THEN cf
            ELSE [exists |-> TRUE, api_opt |-> api.opt, api_b64 |-> api.b64,
                  api_text |-> api.text,
                  MODEL |-> config_data.model,
                  TEMPERATURE |-> FormatFloat(config_data.temperature),
                  SYSTEM_INSTRUCTIONS |-> config_data.system_instructions]]

\* A fresh installation: no files; the environment may hold a key
InitConfig ==
    /\ InitChatIdle
    /\ InitSessionIdle
    /\ InitTrimIdle
    /\ InitStreamIdle
    /\ InitCryptoIdle
    /\ InitFilterIdle
    /\ environ \in {None} \cup SessionKeys
    /\ key_file = NoKeyFile
    /\ config_file = NoConfigFile
    /\ c_op = "start"
    /\ c_arg = NoConfig
    /\ c_ret = NoConfig
    /\ c_raised = FALSE
    /\ c_dec = NoDecrypt

SaveConfig(config_data, iv, fresh) ==
    /\ LET r == save_config(environ, key_file, config_file, config_data, iv, fresh)
       IN  /\ key_file' = r.key_file
           /\ config_file' = r.config_file
           /\ c_raised' = r.raised
    /\ c_op' = "save"
    /\ c_arg' = config_data
    /\ c_ret' = NoConfig
    /\ c_dec' = NoDecrypt
    /\ UNCHANGED <<environ, nonConfigVars>>

LoadConfig(fresh) ==
    /\ LET r == load_config(environ, key_file, config_file, fresh)
       IN  /\ key_file' = r.file
           /\ c_ret' = r.ret
           /\ c_raised' = r.raised
           /\ c_dec' = r.dec
    /\ c_op' = "load"
    /\ c_arg' = NoConfig
    /\ UNCHANGED <<environ, config_file, nonConfigVars>>

\* The program is started again with another environment
Restart(env) ==
    /\ env # environ
    /\ environ' = env
    /\ c_op' = "restart"
    /\ c_raised' = FALSE
    /\ c_arg' = NoConfig
    /\ c_ret' = NoConfig
    /\ c_dec' = NoDecrypt
    /\ UNCHANGED <<key_file, config_file, nonConfigVars>>

\* The .key file is lost, or holds other bytes
ReplaceKeyFile(kf) ==
    /\ kf # key_file
    /\ key_file' = kf
    /\ c_op' = "key_file"
    /\ c_raised' = FALSE
    /\ c_arg' = NoConfig
    /\ c_ret' = NoConfig
    /\ c_dec' = NoDecrypt
    /\ UNCHANGED <<environ, config_file, nonConfigVars>>

\* The encrypted key of config.ini is damaged: its token, or its base64 text
DamageConfig(d) ==
    /\ config_file.exists
    /\ config_file.api_opt = "OPENROUTER_API_KEY_ENCRYPTED"
    /\ config_file.api_b64.valid
    /\ config_file.api_b64.bytes = Fernet_encrypt(
            [valid |-> TRUE, sign |-> config_file.api_b64.bytes.hmac.sk,
             enc |-> config_file.api_b64.bytes.ct.ek],
            config_file.api_b64.bytes.ct.pt, config_file.api_b64.bytes.iv)
    /\ config_file' =
          IF d = "base64" THEN [config_file EXCEPT !.api_b64.valid = FALSE]
          ELSE [config_file EXCEPT !.api_b64.bytes = Damage(@, d)]
    /\ config_file' # config_file
    /\ c_op' = "damage"
    /\ c_raised' = FALSE
    /\ c_arg' = NoConfig
    /\ c_ret' = NoConfig
    /\ c_dec' = NoDecrypt
    /\ UNCHANGED <<environ, key_file, nonConfigVars>>

\* generate_key() is only called when there is no .key file
FreshKeys == IF key_file.exists THEN {BadKey} ELSE FernetKeys

NextConfig ==
    \/ \E config_data \in Configs, iv \in SaveIVs, fresh \in FreshKeys :
          SaveConfig(config_data, iv, fresh)
    \/ \E fresh \in FreshKeys : LoadConfig(fresh)
    \/ \E env \in {None} \cup SessionKeys : Restart(env)
    \/ \E kf \in {NoKeyFile} \cup {[exists |-> TRUE, key |-> k] : k \in MasterKeys} :
          ReplaceKeyFile(kf)
    \/ \E d \in Damages \cup {"base64"} : DamageConfig(d)

SpecConfig == InitConfig /\ [][NextConfig]_vars

----------------------------------------------------------------------------
(* The filters over the fetched catalog (api_client.py).  A record of the    *)
(* catalog is a JSON object or null; each field is written as "missing",     *)
(* "null" or its value.  The fields of `endpoint` are kept beside the        *)
(* record's own; they count when endpoint is "object".                       *)

MaxCatalog == 2

PaidModel ==
    [null |-> FALSE, endpoint |-> "object", is_free |-> "false", pricing |-> "object",
     prompt |-> "0.000001", supports_multipart |-> "false",
     supports_tool_parameters |-> "false", supported_parameters |-> "none",
     supports_reasoning |-> "false", endpoint_reasoning_config |-> "missing",
     reasoning_config |-> "missing", input_modalities |-> "text",
     group |-> "GPT", provider_name |-> "OpenAI"]

Records ==
    {PaidModel,
     [PaidModel EXCEPT !.is_free = "missing", !.provider_name = "missing"],
     [PaidModel EXCEPT !.is_free = "null", !.group = "null"],
     [PaidModel EXCEPT !.is_free = "true", !.prompt = "0", !.group = "missing"],
     [PaidModel EXCEPT !.is_free = "true", !.pricing = "missing"],
     [PaidModel EXCEPT !.is_free = "true", !.prompt = "null"],
     [PaidModel EXCEPT !.null = TRUE],
     [PaidModel EXCEPT !.endpoint = "missing"],
     [PaidModel EXCEPT !.endpoint = "null"],
     [PaidModel EXCEPT !.pricing = "null", !.supported_parameters = "null"],
     [PaidModel EXCEPT !.prompt = "missing"],
     [PaidModel EXCEPT !.input_modalities = "null"],
     [PaidModel EXCEPT !.input_modalities = "text+image", !.reasoning_config = "object",
                       !.supported_parameters = "tools"],
     [PaidModel EXCEPT !.supports_multipart = "true", !.input_modalities = "null",
                       !.supports_reasoning = "true"]}

Catalogs == UNION {[1..n -> Records] : n \in 0..MaxCatalog}

Capabilities == {"reasoning", "multipart", "tools", "free"}

Filters == Capabilities \cup {"all", "group", "provider"}

\* endpoint.get(field): model.get('endpoint', {}) is {} when the key is missing
EndpointGet(model, field) ==
    IF model.endpoint = "object" THEN model[field] ELSE "missing"

\* api_client.py 87-119: "yes", "no", or "raise" where the test raises
Matches(model, capability_filter) ==
    IF capability_filter = "reasoning"
    THEN IF \/ EndpointGet(model, "supports_reasoning") = "true"
            \/ model.reasoning_config = "object"
            \/ EndpointGet(model, "endpoint_reasoning_config") = "object"
         THEN "yes" ELSE "no"
    ELSE IF capability_filter = "multipart"
    THEN IF EndpointGet(model, "supports_multipart") = "true" THEN "yes"
         ELSE IF model.input_modalities = "null" THEN "raise"     \* 'image' in None
         ELSE IF model.input_modalities = "text+image" THEN "yes" ELSE "no"
    ELSE IF capability_filter = "tools"
    THEN IF \/ EndpointGet(model, "supports_tool_parameters") = "true"
            \/ EndpointGet(model, "supported_parameters") = "tools"
         THEN "yes" ELSE "no"
    ELSE IF capability_filter = "free"
    THEN LET pricing == EndpointGet(model, "pricing")
             prompt == IF pricing = "object" THEN EndpointGet(model, "prompt") ELSE "missing"
         IN  IF prompt = "null" THEN "raise"                      \* float(None)
             ELSE IF \/ EndpointGet(model, "is_free") = "true"
                     \/ prompt \in {"missing", "0"}
                  THEN "yes" ELSE "no"
    ELSE "no"

\* api_client.py 77-121: the loop over enhanced_models, from record i on
RECURSIVE FilterFrom(_, _, _, _)
FilterFrom(enhanced_models, i, capability_filter, filtered_models) ==
    IF i > Len(enhanced_models) THEN [raised |-> FALSE, models |-> filtered_models]
    ELSE LET model == enhanced_models[i]
         IN  IF model.null \/ model.endpoint = "null"
             THEN FilterFrom(enhanced_models, i + 1, capability_filter, filtered_models)
             ELSE LET t == Matches(model, capability_filter)
                  IN  IF t = "raise" THEN [raised |-> TRUE, models |-> <<>>]
                      ELSE FilterFrom(enhanced_models, i + 1, capability_filter,
                                      IF t = "yes" THEN Append(filtered_models, model)
                                      ELSE filtered_models)

\* api_client.py 68-126
get_models_by_capability(enhanced_models, basic, capability_filter) ==
    IF capability_filter = "all"
    THEN [abandoned |-> FALSE, models |-> enhanced_models, table |-> {}]
    ELSE LET r == FilterFrom(enhanced_models, 1, capability_filter, <<>>)
         IN  IF r.raised THEN [abandoned |-> TRUE, models |-> basic, table |-> {}]
             ELSE [abandoned |-> FALSE, models |-> r.models, table |-> {}]

\* the records of `kept` whose key is k, from position i on
RECURSIVE WithKey(_, _, _, _)
WithKey(kept, keys, k, i) ==
    IF i > Len(kept) THEN <<>>
    ELSE (IF keys[i] = k THEN <<kept[i]>> ELSE <<>>) \o WithKey(kept, keys, k, i + 1)

\* a dictionary of lists, as its set of <<key, list>>: each record of `kept`
\* appended to the list of its key
Grouped(kept, keys) ==
    {<<keys[i], WithKey(kept, keys, keys[i], 1)>> : i \in 1..Len(kept)}

\* api_client.py 128-149
get_models_by_group(enhanced_models) ==
    LET Keep(model) == ~model.null
        kept == SelectSeq(enhanced_models, Keep)
        keys == [i \in 1..Len(kept) |->
                    IF kept[i].group = "missing" THEN "Other" ELSE kept[i].group]
    IN  [abandoned |-> FALSE, models |-> <<>>, table |-> Grouped(kept, keys)]

\* api_client.py 151-174
get_models_by_provider(enhanced_models) ==
    LET Keep(model) == ~model.null /\ model.endpoint # "null"
        kept == SelectSeq(enhanced_models, Keep)
        keys == [i \in 1..Len(kept) |->
                    IF EndpointGet(kept[i], "provider_name") = "missing" THEN "Unknown"
                    ELSE EndpointGet(kept[i], "provider_name")]
    IN  [abandoned |-> FALSE, models |-> <<>>, table |-> Grouped(kept, keys)]

InitFilter ==
    /\ InitChatIdle
    /\ InitSessionIdle
    /\ InitTrimIdle
    /\ InitStreamIdle
    /\ InitCryptoIdle
    /\ InitConfigIdle
    /\ m_catalog \in Catalogs
    /\ m_basic \in {<<>>, <<PaidModel>>}
    /\ m_filter \in Filters
    /\ m_out = NoResult
    /\ m_done = FALSE

ByCapability ==
    /\ ~m_done
    /\ m_filter \in Capabilities \cup {"all"}
    /\ m_out' = get_models_by_capability(m_catalog, m_basic, m_filter)
    /\ m_done' = TRUE
    /\ UNCHANGED <<m_catalog, m_basic, m_filter, nonFilterVars>>

ByGroup ==
    /\ ~m_done
    /\ m_filter = "group"
    /\ m_out' = get_models_by_group(m_catalog)
    /\ m_done' = TRUE
    /\ UNCHANGED <<m_catalog, m_basic, m_filter, nonFilterVars>>

ByProvider ==
    /\ ~m_done
    /\ m_filter = "provider"
    /\ m_out' = get_models_by_provider(m_catalog)
    /\ m_done' = TRUE
    /\ UNCHANGED <<m_catalog, m_basic, m_filter, nonFilterVars>>

NextFilter == ByCapability \/ ByGroup \/ ByProvider

SpecFilter == InitFilter /\ [][NextFilter]_vars

----------------------------------------------------------------------------
(* A session of chat_with_model with its texts: plain messages, the stream   *)
(* of each response line by line, the session counters and the record of     *)
(* the last thinking content; then the same session fed to ChatInterface     *)
(* (src/core/chat.py) as well.  A message is [role, kind, n, content].  The  *)
(* tokenizer (tiktoken) is outside the repository: a text counts one token   *)
(* per character, the fallback greeting GreetingTokens.                      *)

MaxTurns == 2

TextTokens(text) == IF text = FallbackGreeting THEN GreetingTokens ELSE Len(text)

TextMsg(role, content) ==
    [role |-> role, kind |-> IF role = "user" THEN "text" ELSE "reply",
     n |-> TextTokens(content), content |-> content]

UserTexts == {<<"h", "i">>, <<"y", "o", "u">>}

SessionStreams ==
    { <<Delta(<<"h", "i">>)>>,
      <<Delta(OpenTag \o <<"a">> \o CloseTag \o <<"o", "k">>), UsageLine("u1")>>,
      <<DoneLine>>,
      <<Delta(<<"h", "i">>), DoneLine, Delta(<<"!">>)>> }

ResponseTimes == {1, 2}

\* The largest budget and the smallest system instructions: nothing is trimmed
SessionBudget == CHOOSE b \in Budgets : \A c \in Budgets : c <= b

SessionInstr == CHOOSE n \in SysInstrSizes : \A m \in SysInstrSizes : n <= m

\* chat.py 980-982: the counts of a usage summary
UsageTokens(usage) ==
    IF usage = "u1"
    THEN [prompt_tokens |-> 3, completion_tokens |-> 2, total_tokens |-> 5]
    ELSE [prompt_tokens |-> 4, completion_tokens |-> 1, total_tokens |-> 5]

Counters ==
    [total_prompt_tokens |-> total_prompt_tokens,
     total_completion_tokens |-> total_completion_tokens,
     total_tokens_used |-> total_tokens_used,
     message_count |-> message_count,
     response_times |-> response_times]

\* chat.py 893-966: a plain message is counted, appended and sent
ChatSend(text) ==
    /\ q_pc = "input"
    /\ q_turns < MaxTurns
    /\ q_snap' = Counters
    /\ input_tokens' = TextTokens(text)
    /\ total_prompt_tokens' = total_prompt_tokens + input_tokens'
    /\ conversation_history' =
          manage_context_window(Append(conversation_history, TextMsg("user", text)),
                                SessionBudget).hist
    /\ q_pc' = "request"
    /\ q_event' = "sent"
    /\ q_turns' = q_turns + 1
    /\ q_shown' = NotShown
    /\ UNCHANGED <<total_completion_tokens, total_tokens_used, message_count,
                   response_times, q_mode, q_recent, last_thinking_content,
                   nonSessionVars>>

\* chat.py 968-1029 and 1072-1074: status 200; stream_response (24-149) reads
\* the lines, records the thinking content and returns the text and the usage
ChatStatus200(lines, response_time) ==
    /\ q_pc = "request"
    /\ LET loc == RunFrom(lines, 1, InitLocals, q_mode)
           message_content == OrGreeting(Cleaned(loc.full_content, q_mode))
           usage_info == loc.usage_info
           response_tokens == TextTokens(message_content)
       IN  /\ last_thinking_content' = ThinkingRecord(loc, q_mode, last_thinking_content)
           /\ q_recent' = ThinkingRecord(loc, q_mode, <<>>)
           /\ IF message_content # <<>>
              THEN /\ response_times' = Append(response_times, response_time)
                   /\ conversation_history' =
                         PopIfUser(Append(conversation_history,
                                          TextMsg("assistant", message_content)))
                   /\ IF usage_info # "None"
                      THEN /\ total_prompt_tokens' =
                                 total_prompt_tokens + UsageTokens(usage_info).prompt_tokens
                           /\ total_completion_tokens' =
                                 total_completion_tokens
                                 + UsageTokens(usage_info).completion_tokens
                           /\ total_tokens_used' =
                                 total_tokens_used + UsageTokens(usage_info).total_tokens
                           /\ input_tokens' = UsageTokens(usage_info).prompt_tokens
                      ELSE /\ total_tokens_used' =
                                 total_tokens_used + input_tokens + response_tokens
                           /\ total_completion_tokens' =
                                 total_completion_tokens + response_tokens
                           /\ UNCHANGED <<total_prompt_tokens, input_tokens>>
                   /\ message_count' = message_count + 1
              ELSE /\ conversation_history' = PopIfUser(PopIfUser(conversation_history))
                   /\ UNCHANGED <<input_tokens, total_prompt_tokens,
                                  total_completion_tokens, total_tokens_used,
                                  message_count, response_times>>
    /\ q_pc' = "input"
    /\ q_event' = "reply"
    /\ q_shown' = NotShown
    /\ UNCHANGED <<q_mode, q_turns, q_snap, nonSessionVars>>

\* chat.py 1030-1074 (any other status) and 1075-1083 (RequestException)
ChatFailure(kind) ==
    /\ q_pc = "request"
    /\ kind \in {"status_error", "network_error"}
    /\ conversation_history' = PopIfUser(conversation_history)
    /\ q_pc' = "input"
    /\ q_event' = kind
    /\ q_shown' = NotShown
    /\ UNCHANGED <<input_tokens, total_prompt_tokens, total_completion_tokens,
                   total_tokens_used, message_count, response_times, q_mode, q_turns,
                   q_snap, q_recent, last_thinking_content, nonSessionVars>>

\* chat.py 805-819: /thinking
ChatThinking ==
    /\ q_pc = "input"
    /\ q_shown' = IF last_thinking_content # <<>> THEN last_thinking_content ELSE None
    /\ q_event' = "thinking"
    /\ UNCHANGED <<conversation_history, input_tokens, total_prompt_tokens,
                   total_completion_tokens, total_tokens_used, message_count,
                   response_times, q_pc, q_mode, q_turns, q_snap, q_recent,
                   last_thinking_content, nonSessionVars>>

\* chat.py 821-849: /thinking-mode
ChatThinkingMode ==
    /\ q_pc = "input"
    /\ q_mode' = ~q_mode
    /\ conversation_history' =
          IF Len(conversation_history) > 0 /\ conversation_history[1].role = "system"
          THEN [conversation_history EXCEPT ![1] = SystemMessage(SessionInstr, q_mode')]
          ELSE conversation_history
    /\ q_event' = "command"
    /\ q_shown' = NotShown
    /\ UNCHANGED <<input_tokens, total_prompt_tokens, total_completion_tokens,
                   total_tokens_used, message_count, response_times, q_pc, q_turns,
                   q_snap, q_recent, last_thinking_content, nonSessionVars>>

\* chat.py 523-559: /new
ChatNew ==
    /\ q_pc = "input"
    /\ conversation_history' = ResetHistory(SessionInstr)
    /\ total_tokens_used' = 0
    /\ response_times' = <<>>
    /\ message_count' = 0
    /\ q_event' = "command"
    /\ q_shown' = NotShown
    /\ UNCHANGED <<input_tokens, total_prompt_tokens, total_completion_tokens, q_pc,
                   q_mode, q_turns, q_snap, q_recent, last_thinking_content,
                   nonSessionVars>>

\* chat.py 196-217 and 270-279: the session starts
InitChatSession ==
    /\ q_mode \in BOOLEAN
    /\ conversation_history = <<SystemMessage(SessionInstr, q_mode)>>
    /\ input_tokens = 0
    /\ total_prompt_tokens = 0
    /\ total_completion_tokens = 0
    /\ total_tokens_used = 0
    /\ message_count = 0
    /\ response_times = <<>>
    /\ q_pc = "input"
    /\ q_event = "start"
    /\ q_turns = 0
    /\ q_snap = NoCounters
    /\ q_shown = NotShown
    /\ q_recent = <<>>

InitSession ==
    /\ InitChatIdle
    /\ InitTrimIdle
    /\ InitStreamIdle
    /\ InitCryptoIdle
    /\ InitConfigIdle
    /\ InitFilterIdle
    /\ InitChatSession
    /\ InitRefactorIdle

SessionSend(text) == ChatSend(text) /\ UNCHANGED refactorVars

SessionStatus200(lines, response_time) ==
    ChatStatus200(lines, response_time) /\ UNCHANGED refactorVars

SessionFailure(kind) == ChatFailure(kind) /\ UNCHANGED refactorVars

CmdThinking == ChatThinking /\ UNCHANGED refactorVars

SessionThinkingMode == ChatThinkingMode /\ UNCHANGED refactorVars

SessionNew == ChatNew /\ UNCHANGED refactorVars

NextSession ==
    \/ \E text \in UserTexts : SessionSend(text)
    \/ \E lines \in SessionStreams, response_time \in ResponseTimes :
          SessionStatus200(lines, response_time)
    \/ \E kind \in {"status_error", "network_error"} : SessionFailure(kind)
    \/ CmdThinking
    \/ SessionThinkingMode
    \/ SessionNew

SpecSession == InitSession /\ [][NextSession]_vars

\* core/chat.py 333-379: _stream_response returns full_content as received
RECURSIVE _stream_response(_, _, _)
_stream_response(lines, pos, full_content) ==
    IF pos > Len(lines) THEN full_content
    ELSE LET line == lines[pos]
         IN  IF line.kind = "done" THEN full_content
             ELSE IF line.kind = "scalar" THEN full_content
             ELSE IF line.kind = "delta"
                  THEN _stream_response(lines, pos + 1, full_content \o line.content)
                  ELSE _stream_response(lines, pos + 1, full_content)

\* core/chat.py 238-239: the user message is appended
RefactoredSend(text) ==
    /\ self_conversation_history' = Append(self_conversation_history, TextMsg("user", text))
    /\ UNCHANGED messages_sent

\* core/chat.py 242-246 and 300-301: the response, when it has content, is appended
RefactoredStatus200(lines) ==
    LET response_content == _stream_response(lines, 1, <<>>)
    IN  IF response_content # <<>>
        THEN /\ self_conversation_history' =
                   Append(self_conversation_history, TextMsg("assistant", response_content))
             /\ messages_sent' = messages_sent + 1
        ELSE UNCHANGED refactorVars

\* core/chat.py 289-297 and 307-309: _get_ai_response returns None and
\* _process_user_message does nothing more
RefactoredFailure == UNCHANGED refactorVars

\* main_refactored.py 612-617: both loops start from the same history
InitRefactor ==
    /\ InitChatIdle
    /\ InitTrimIdle
    /\ InitStreamIdle
    /\ InitCryptoIdle
    /\ InitConfigIdle
    /\ InitFilterIdle
    /\ InitChatSession
    /\ self_conversation_history = conversation_history
    /\ messages_sent = 0

BothSend(text) == ChatSend(text) /\ RefactoredSend(text)

BothStatus200(lines, response_time) ==
    ChatStatus200(lines, response_time) /\ RefactoredStatus200(lines)

BothFailure(kind) == ChatFailure(kind) /\ RefactoredFailure

NextRefactor ==
    \/ \E text \in UserTexts : BothSend(text)
    \/ \E lines \in SessionStreams, response_time \in ResponseTimes :
          BothStatus200(lines, response_time)
    \/ \E kind \in {"status_error", "network_error"} : BothFailure(kind)

SpecRefactor == InitRefactor /\ [][NextRefactor]_vars

----------------------------------------------------------------------------
(* Properties *)

\* conversation_history while the request of the current turn is pending
Pending == manage_context_window(Append(before, sent), max_tokens).hist

LastRole(H) == IF H = <<>> THEN "none" ELSE H[Len(H)].role

\* The tokens of a result of manage_context_window, the notice it added
\* (element 2 when something was dropped) not counted
TokensWithoutNotice(out) ==
    IF out.dropped > 0 THEN SumTokens(out.hist) - count_tokens(out.hist[2])
    ELSE SumTokens(out.hist)

\* C1: whenever the loop is back at the input prompt, the last element of
\* conversation_history is not a user-role message (no user turn is left
\* without an assistant reply).
C1_NoOrphanedUserTurn == pc = "input" => LastRole(history) # "user"

\* C2: for every history and every budget, after a turn whose request raised a
\* network exception conversation_history has the length it had before the
\* user message was appended.
C2_NetworkErrorKeepsLength == event = "network_error" => Len(history) = Len(before)

\* C2 (amended): when the history with the user message appended is within
\* the budget, so that nothing is trimmed, a network exception leaves
\* conversation_history with the length it had before the user message was
\* appended.
C2_NetworkErrorKeepsLengthUntrimmed ==
    (event = "network_error" /\ SumTokens(Append(before, sent)) <= max_tokens)
        => Len(history) = Len(before)

C2_Witness ==
    /\ event = "network_error"
    /\ SumTokens(Append(before, sent)) <= max_tokens
    /\ Len(before) >= 3
    /\ pc = "input"

\* C3: a 200 response whose stream carries no content counts as a failure: no
\* assistant message is appended and the user message just appended is
\* removed, as on the failure path.
C3_EmptyContentIsFailure == event = "stream_empty" => history = PopIfUser(Pending)

\* C4: a transport error while the stream is consumed aborts the turn: no
\* assistant message is appended, the user message of the turn is removed,
\* and the loop awaits input.
C4_StreamErrorAbortsTurn ==
    event = "stream_broken" => (pc = "input" /\ history = PopIfUser(Pending))

\* C5: a keyboard interrupt, while a line is read or while the request is
\* pending, returns the loop to awaiting input and leaves conversation_history
\* as it was before the interrupted turn began.
C5_InterruptResumes ==
    [][event' = "interrupt" =>
          /\ pc' = "input"
          /\ history' = IF pc = "request" THEN before ELSE history]_vars

\* C6: on /exit or /quit the loop reaches the terminal state: it ends, no
\* further line is read and no request is issued.
C6_ExitEndsLoop == (event = "command" /\ user_input \in ExitCommands) => pc = "exited"

\* C7: every command other than /exit and /quit, unknown ones included,
\* returns the loop to awaiting input, appends no user or assistant message
\* to conversation_history and issues no chat request.
C7_CommandsReturnToInput ==
    [][(event' = "command" /\ user_input' \notin ExitCommands) =>
          /\ pc' = "input"
          /\ Len(history') <= Len(history)
          /\ \A i \in DOMAIN history' :
                history'[i].role \in {"user", "assistant"}
                    => \E j \in DOMAIN history : history[j] = history'[i]]_vars

C7_Witness ==
    /\ event = "command"
    /\ user_input = "/unknown"
    /\ pc = "input"
    /\ Len(history) >= 3

\* C8: in every reachable state of a session conversation_history is
\* non-empty and its element 0 has role 'system'.
C8_SystemMessageFirst == Len(history) >= 1 /\ history[1].role = "system"

C8_Witness ==
    /\ event = "network_error"
    /\ Len(history) >= 2
    /\ history[2].kind = "note"
    /\ Len(history) < Len(before)

\* C9: for every history whose token total is at most the budget,
\* manage_context_window returns the history unchanged and a dropped count
\* of 0.
C9_UnderBudgetUnchanged ==
    (t_done /\ SumTokens(t_hist) <= t_max) => t_out = [hist |-> t_hist, dropped |-> 0]

C9_Witness ==
    /\ t_done
    /\ SumTokens(t_hist) = t_max
    /\ Len(t_hist) >= 3
    /\ t_out.hist = t_hist

\* C10: for every history whose token total exceeds the budget, the result
\* starts with the history's system message and its token total, the notice
\* not counted, is at most budget - 1000.
C10_TrimmedWithinMargin ==
    (t_done /\ SumTokens(t_hist) > t_max) =>
        /\ t_out.hist[1] = t_hist[1]
        /\ TokensWithoutNotice(t_out) <= t_max - Margin

\* C10 (amended): for every history whose token total exceeds the budget, the
\* result starts with the history's system message; its token total, the
\* notice not counted, is at most budget - 1000 when the system message alone
\* is at most budget - 1000 tokens, and otherwise the result holds nothing
\* but the system message, and the notice when a message was dropped.
C10_TrimmedWithinMarginOrSystemOnly ==
    (t_done /\ SumTokens(t_hist) > t_max) =>
        /\ t_out.hist[1] = t_hist[1]
        /\ IF count_tokens(t_hist[1]) <= t_max - Margin
           THEN TokensWithoutNotice(t_out) <= t_max - Margin
           ELSE t_out.hist = <<t_hist[1]>>
                             \o (IF Len(t_hist) > 1 THEN <<Note(Len(t_hist) - 1)>> ELSE <<>>)

C10_Witness ==
    /\ t_done
    /\ SumTokens(t_hist) > t_max
    /\ t_out.dropped > 0
    /\ Len(t_out.hist) >= 4
    /\ count_tokens(t_hist[1]) <= t_max - Margin

\* The content deltas of a stream, in order
RECURSIVE DeltasOf(_)
DeltasOf(lines) ==
    IF lines = <<>> THEN <<>>
    ELSE IF Head(lines).kind = "delta"
         THEN <<Head(lines).content>> \o DeltasOf(Tail(lines))
         ELSE DeltasOf(Tail(lines))

C11_Chunks ==
    << <<"<", "t", "h", "i">>,
       <<"n", "k", "i", "n", "g", ">", "h", "e", "l", "l", "o", "<", "/", "t", "h", "i">>,
       <<"n", "k", "i", "n", "g", ">", " ", "w", "o", "r", "l", "d">> >>

\* C11: with thinking mode enabled, the deltas "<thi", "nking>hello</thi",
\* "nking> world" yield thinking content "hello" and visible content " world".
C11_SplitTagsKeepBlank ==
    (s_pc = "returned" /\ s_mode /\ DeltasOf(s_lines) = C11_Chunks) =>
        /\ last_thinking_content = <<"h", "e", "l", "l", "o">>
        /\ s_ret = <<" ", "w", "o", "r", "l", "d">>

\* C11 (amended): with thinking mode enabled, the deltas "<thi",
\* "nking>hello</thi", "nking> world" yield thinking content "hello" and
\* visible content "world": the text left once the span is removed is
\* stripped of leading and trailing whitespace.
C11_SplitTagsStripped ==
    (s_pc = "returned" /\ s_mode /\ DeltasOf(s_lines) = C11_Chunks) =>
        /\ last_thinking_content = <<"h", "e", "l", "l", "o">>
        /\ s_ret = <<"w", "o", "r", "l", "d">>

C11_Witness ==
    /\ s_pc = "returned"
    /\ s_mode
    /\ DeltasOf(s_lines) = C11_Chunks
    /\ s_loc.thinking_content = <<>>

\* C12: a stream that holds only the [DONE] marker and no content delta makes
\* stream_response return the fallback greeting, in both thinking-mode
\* settings.
C12_DoneOnlyGivesGreeting ==
    (s_pc = "returned" /\ s_lines # <<>> /\ DeltasOf(s_lines) = <<>>) =>
        s_ret = FallbackGreeting

C12_Witness ==
    /\ s_pc = "returned"
    /\ s_lines = <<DoneLine>>
    /\ s_mode
    /\ s_ret = FallbackGreeting

\* C13: for every non-empty API key k and master key m,
\* decrypt_api_key(encrypt_api_key(k, m), m) is k.
C13_EncryptDecryptRoundTrip ==
    (f_pc = "decrypted" /\ f_damage = "none" /\ f_used = f_master) => f_out = f_key

C13_Witness ==
    /\ f_pc = "decrypted"
    /\ f_damage = "none"
    /\ f_used = f_master
    /\ f_key = <<"k", "é">>
    /\ f_out = f_key

\* A token that encrypt_api_key gives under `master` for no key
Mismatched(token, master) ==
    \/ ~master.valid
    \/ \A k \in ApiKeys, iv \in IVs : token # Fernet_encrypt(master, Encode(k), iv)

\* C14: a decryption failure is never raised to the caller: decrypt_api_key
\* with another or a corrupted master key, or on a corrupted ciphertext,
\* returns None, and load_config on a config file that holds such an
\* encrypted key returns normally with no API key taken from the file.
C14_DecryptFailureNotRaised ==
    (/\ c_op = "load"
     /\ config_file.api_opt = "OPENROUTER_API_KEY_ENCRYPTED"
     /\ \/ c_dec.reached = "b64decode"
        \/ c_dec.reached = "decrypt" /\ Mismatched(c_dec.token, c_dec.master))
    => /\ ~c_raised
       /\ c_ret.api_key = environ
       /\ c_dec.reached = "decrypt" => c_dec.out = None

C14_Witness ==
    /\ c_op = "load"
    /\ c_dec.reached = "decrypt"
    /\ c_dec.master.valid
    /\ c_dec.token.version = 128
    /\ Mismatched(c_dec.token, c_dec.master)
    /\ c_dec.out = None
    /\ c_ret.api_key = None
    /\ ~c_raised

\* C15: if an API key is present in the process environment, load_config
\* returns that key whatever the config file holds, and save_config writes
\* no API key to the config file.
C15_EnvironmentKeyWins ==
    /\ (c_op = "load" /\ environ # None) => c_ret.api_key = environ
    /\ (c_op = "save" /\ environ # None /\ ~c_raised) => config_file.api_opt = "none"

\* C16: with OPENROUTER_API_KEY unset in the environment, save_config(c)
\* followed by load_config() reproduces c's api_key, temperature and model.
C16_SaveLoadRoundTrip ==
    (c_op = "save" /\ environ = None) =>
        \A fresh \in FreshKeys :
            LET r == load_config(environ, key_file, config_file, fresh)
            IN  /\ ~r.raised
                /\ r.ret.api_key = c_arg.api_key
                /\ r.ret.temperature = c_arg.temperature
                /\ r.ret.model = c_arg.model

\* a record the claim calls a model with is_free = true
IsFreeModel(model) ==
    ~model.null /\ model.endpoint = "object" /\ model.is_free = "true"

\* a record the claim calls a model with a non-zero prompt price
IsPricedModel(model) ==
    /\ ~model.null
    /\ model.endpoint = "object"
    /\ model.is_free # "true"
    /\ model.pricing = "object"
    /\ model.prompt = "0.000001"

\* C17: filtering by capability 'free' over a catalog of two models, one with
\* is_free = true and one with a non-zero prompt price (and is_free not
\* true), returns exactly the first model.
C17_FreeFilterReturnsFreeModel ==
    (/\ m_done
     /\ m_filter = "free"
     /\ Len(m_catalog) = 2
     /\ IsFreeModel(m_catalog[1])
     /\ IsPricedModel(m_catalog[2]))
    => (~m_out.abandoned /\ m_out.models = <<m_catalog[1]>>)

\* a record that is an object whose fields are all present and none null
WellFormed(model) ==
    /\ ~model.null
    /\ \A f \in {"endpoint", "is_free", "pricing", "prompt", "supported_parameters",
                 "input_modalities", "group", "provider_name"} :
          model[f] \notin {"missing", "null"}

\* C18: for every capability, group and provider filter and every catalog in
\* which some records are null or have missing or null fields, the filter
\* skips only those records and returns the filtered remainder; one bad
\* record never makes the whole filtering fail or be abandoned.
C18_BadRecordsOnlySkipped ==
    m_done =>
        /\ ~m_out.abandoned
        /\ m_filter \in Capabilities =>
              \A i \in 1..Len(m_catalog) :
                  (WellFormed(m_catalog[i]) /\ Matches(m_catalog[i], m_filter) = "yes")
                  => \E j \in 1..Len(m_out.models) : m_out.models[j] = m_catalog[i]

\* The messages of H at the positions of A, from position i on, in H's order
RECURSIVE Pick(_, _, _)
Pick(H, i, A) ==
    IF i > Len(H) THEN <<>>
    ELSE (IF i \in A THEN <<H[i]>> ELSE <<>>) \o Pick(H, i + 1, A)

\* A is the set of positions a walk from the most recent to the oldest
\* message accepts: a position is accepted iff the system message, the
\* accepted newer messages and the message itself stay under max - Margin
Greedy(H, A, max) ==
    \A i \in 2..Len(H) :
        i \in A <=> count_tokens(H[1]) + SumTokens(Pick(H, i + 1, A)) + count_tokens(H[i])
                        < max - Margin

\* The result without the system message and without the notice
Body(out) ==
    SubSeq(out.hist, IF out.dropped > 0 THEN 3 ELSE 2, Len(out.hist))

\* C19: for an over-budget history H, the messages of the result other than
\* the system message and the notice are exactly the H[i] accepted by a walk
\* from the most recent to the oldest message, H[i] accepted iff
\* tokens(system) + tokens(accepted newer messages) + tokens(H[i]) is below
\* budget - 1000; a rejected message does not stop older ones from being
\* accepted, and the accepted messages keep their chronological order.
C19_GreedyWalkKeepsOrder ==
    (t_done /\ SumTokens(t_hist) > t_max) =>
        \E A \in SUBSET (2..Len(t_hist)) :
            /\ Greedy(t_hist, A, t_max)
            /\ Body(t_out) = Pick(t_hist, 2, A)

\* an older message is kept although a newer one was rejected
C19_Witness ==
    /\ t_done
    /\ SumTokens(t_hist) > t_max
    /\ \E A \in SUBSET (2..Len(t_hist)) :
          /\ Greedy(t_hist, A, t_max)
          /\ Body(t_out) = Pick(t_hist, 2, A)
          /\ \E i \in A, j \in (2..Len(t_hist)) \ A : i < j
          /\ \E i \in A, j \in A : i < j

\* C20: the dropped count is the number of messages of H[1:] absent from the
\* result; when it is positive the result holds exactly one added system-role
\* notice, at index 1 right after the original system message, whose text
\* states that count, and when it is 0 no notice is added.
C20_NoticeStatesDroppedCount ==
    t_done =>
        \E A \in SUBSET (2..Len(t_hist)) :
            /\ t_out.dropped = (Len(t_hist) - 1) - Cardinality(A)
            /\ t_out.hist = <<t_hist[1]>>
                            \o (IF t_out.dropped > 0 THEN <<Note(t_out.dropped)>> ELSE <<>>)
                            \o Pick(t_hist, 2, A)

C20_Witness ==
    /\ t_done
    /\ t_out.dropped >= 2
    /\ Len(t_out.hist) >= 3
    /\ t_out.hist[2] = Note(t_out.dropped)
    /\ t_out.hist[2] \notin {t_hist[i] : i \in 1..Len(t_hist)}

RECURSIVE Concat(_)
Concat(texts) == IF texts = <<>> THEN <<>> ELSE Head(texts) \o Concat(Tail(texts))

\* the usage summary of the last event that carries one
RECURSIVE LastUsage(_)
LastUsage(lines) ==
    IF lines = <<>> THEN "None"
    ELSE IF lines[Len(lines)].kind = "delta" /\ lines[Len(lines)].usage # "None"
         THEN lines[Len(lines)].usage
         ELSE LastUsage(SubSeq(lines, 1, Len(lines) - 1))

\* C21: a chunk whose payload does not parse as a valid structured event (not
\* JSON, or JSON that is not an object of the expected shape) is skipped
\* without ending the stream and without an error: every valid content delta
\* and usage summary that arrives later in the stream is still reflected in
\* the returned text and usage info.
C21_MalformedChunkSkipped ==
    (s_pc = "returned" /\ \E i \in 1..Len(s_lines) : s_lines[i].kind \in {"notjson", "scalar"})
    => /\ ~s_loc.error
       /\ s_ret = OrGreeting(Cleaned(Concat(DeltasOf(s_lines)), s_mode))
       /\ s_loc.usage_info = LastUsage(s_lines)

\* the lines before the first [DONE]
RECURSIVE UntilDone(_)
UntilDone(lines) ==
    IF lines = <<>> \/ Head(lines).kind = "done" THEN <<>>
    ELSE <<Head(lines)>> \o UntilDone(Tail(lines))

\* C22: once a [DONE] line has been read the stream is treated as ended: no
\* content delta or usage summary of a later line changes the returned
\* visible text, the thinking content or the usage info.
C22_DoneEndsStream ==
    s_pc = "returned" => Returned = Outputs(UntilDone(s_lines), s_mode)

\* C23: with thinking mode enabled, after the stream ends the
\* last-thinking-content record equals the contents of all complete
\* <thinking>...</thinking> spans of the full accumulated buffer, in order,
\* when there is such a span (the incremental buffer is then not used); when
\* there is none and the incremental thinking buffer is not blank, the record
\* equals the incremental buffer.
C23_ThinkingRecordFromSpans ==
    (s_pc = "returned" /\ s_mode) =>
        LET spans == FindAll(s_loc.full_content, 1)
        IN  /\ spans # <<>> => last_thinking_content = JoinLines(spans)
            /\ (spans = <<>> /\ Strip(s_loc.thinking_content) # <<>>)
                  => last_thinking_content = s_loc.thinking_content

\* two spans are recorded in order although the incremental buffer holds
\* something else
C23_Witness ==
    /\ s_pc = "returned"
    /\ s_mode
    /\ FindAll(s_loc.full_content, 1) = << <<"a">>, <<"b">> >>
    /\ last_thinking_content = <<"a", "\n", "b">>
    /\ s_loc.thinking_content # last_thinking_content
    /\ Strip(s_loc.thinking_content) # <<>>

\* C24: for a fixed thinking-mode setting, the returned visible text and the
\* recorded last thinking content depend only on the concatenation of the
\* content deltas, not on where the chunk boundaries fall: a stream gives
\* what the stream with the same deltas in one chunk gives.
C24_ChunkBoundariesDoNotMatter ==
    (s_pc = "returned" /\ \A i \in 1..Len(s_lines) : s_lines[i].kind \in {"delta", "done"}) =>
        LET one == Outputs(<<Delta(Concat(DeltasOf(s_lines)))>>, s_mode)
        IN  s_ret = one.text /\ last_thinking_content = one.thinking

\* C25: with thinking mode enabled, text received after an opening <thinking>
\* tag and before its closing tag (or before the end of the stream when the
\* tag is never closed) never appears in the returned visible text, and
\* neither tag appears in it.
C25_ThinkingTextNotVisible ==
    (s_pc = "returned" /\ s_mode) =>
        LET spans == FindAll(s_loc.full_content, 1)
            rest == RemoveSpans(s_loc.full_content, 1)
        IN  /\ ~Contains(s_ret, OpenTag)
            /\ ~Contains(s_ret, CloseTag)
            /\ \A i \in 1..Len(spans) : spans[i] = <<>> \/ ~Contains(s_ret, spans[i])
            /\ Contains(rest, OpenTag) =>
                  (SplitAfter(rest, OpenTag) = <<>> \/ ~Contains(s_ret, SplitAfter(rest, OpenTag)))

\* C26: whenever the loop of chat_with_model awaits input, the system message
\* (conversation_history[0]) contains the mandatory <thinking>-tag
\* instruction if and only if config['thinking_mode'] is true, after any
\* sequence of /thinking-mode, /clear, /new, /system and /model commands.
C26_InstructionMatchesThinkingMode ==
    pc = "input" => (history[1].kind = "instr_think" <=> thinking_mode)

C27_ThinkingShowsMostRecent ==
    q_event = "thinking" => q_shown = (IF q_recent # <<>> THEN q_recent ELSE None)

\* C28: a turn that fails (network exception or non-200 status) leaves every
\* session counter - total_prompt_tokens, total_completion_tokens,
\* total_tokens_used, message_count and response_times - equal to its value
\* before the turn.
C28_FailedTurnKeepsCounters ==
    q_event \in {"status_error", "network_error"} => Counters = q_snap

\* C30: started from the same system message with a budget under which
\* nothing is trimmed, the same plain messages with the same request
\* outcomes leave ChatInterface and chat_with_model with the same
\* conversation history.
C30_RefactoredHistoryEqual ==
    q_pc = "input" => self_conversation_history = conversation_history

====
